---------------------------- MODULE Spec2Model ----------------------------
(***************************************************************************)
(* Model of the BetaVAE evaluation and training helpers:                   *)
(*   src/utils/fid.py  : get_fid_value, _get_activations,                  *)
(*                       _calculate_frechet_distance                       *)
(*   src/training.py   : save_model, LossesLogger                          *)
(*                                                                         *)
(* Python positions are 0-based; sequences here are 1-based, so Python     *)
(* position p is index p + 1 below.                                        *)
(***************************************************************************)
EXTENDS Integers, Sequences, FiniteSets, TLC

(* ----------------------------- bounds ---------------------------------- *)
\* largest dataset cardinality explored
MaxCard == 3
\* largest batch size explored (dataloader batch size and batch_size argument)
MaxBatch == 3
\* largest value of the evaluation cap explored
MaxCap == 3
\* number of LossesLogger log calls explored
MaxLogs == 2
\* number of LossesLogger constructions explored
MaxLoggers == 3
\* largest epoch number logged
MaxEpoch == 1

(* ------------------------- program constants --------------------------- *)
\* fid.py:251  dims = 2048
dims == 2048
\* fid.py:122  atol=1e-3, in units of 1e-6
AtolMicro == 1000

VARIABLES
  \* ---- get_fid_value / _get_activations (src/utils/fid.py) ----
  pc,               \* control position of get_fid_value
  err,              \* the exception raised, "" when none
  length,           \* len(dataloader.dataset)
  dl_batch_size,    \* batch size of the dataloader passed to get_fid_value
  batch_size,       \* batch_size argument of get_fid_value
  FID_EVAL_SIZE,    \* the evaluation cap (module constant of fid.py)
  remaining,        \* samples the dataloader iteration has not yielded yet
  count,            \* batches materialized so far
  original_input,   \* materialized originals
  original_label,   \* materialized labels
  vae_output,       \* materialized reconstructions
  subset_indices,   \* the drawn random subset
  sampler,          \* positions the sampler yields
  which,            \* dataset _get_activations is running on
  act_batch_size,   \* batch_size local of _get_activations (after clamping)
  pred_arr,         \* preallocated activation matrix, one entry per row
  start_idx,        \* write offset in pred_arr
  sampler_pos,      \* sampler positions already delivered
  writes,           \* history: number of writes each row of pred_arr received
  batch_log,        \* history: <<offset, size>> of each batch written
  delivered,        \* history: per dataset, <<position, image, label>> delivered
  act,              \* per dataset, what _get_activations returned
  fid_value,        \* outcome of _calculate_frechet_distance in get_fid_value
  \* ---- _calculate_frechet_distance called directly ----
  mu1, sigma1, mu2, sigma2,   \* shapes of the arguments
  fd_result,                  \* outcome of the call
  \* ---- save_model (src/training.py) ----
  fs,               \* file system: <<directory, filename>> -> content
  last_save,        \* history: arguments of the last save_model call
  \* ---- LossesLogger (src/training.py) ----
  log_fs,           \* path -> inode currently linked at the path (0: no file)
  inodes,           \* inode -> sequence of lines written to it
  handlers,         \* handlers of logging.getLogger("losses_logger"): inodes
  loggers,          \* LossesLogger instances: path and inode opened
  logged            \* history: rows passed to log(), with the instance

fidVars == <<pc, err, length, dl_batch_size, batch_size, FID_EVAL_SIZE, remaining,
             count, original_input, original_label, vae_output, subset_indices,
             sampler, which, act_batch_size, pred_arr, start_idx, sampler_pos,
             writes, batch_log, delivered, act, fid_value>>
fdVars == <<mu1, sigma1, mu2, sigma2, fd_result>>
saveVars == <<fs, last_save>>
logVars == <<log_fs, inodes, handlers, loggers, logged>>
vars == <<fidVars, fdVars, saveVars, logVars>>

(* ------------------------------ helpers -------------------------------- *)
Min(a, b) == IF a <= b THEN a ELSE b

\* sequences of n distinct elements of S
Arrangements(S, n) ==
  {s \in [1..n -> S] : \A i, j \in 1..n : i # j => s[i] # s[j]}

RECURSIVE SumSizes(_)
SumSizes(log) ==
  IF log = <<>> THEN 0 ELSE log[1][2] + SumSizes(Tail(log))

(* ------------------------- tensors and networks ------------------------ *)
\* A per-sample tensor is identified by the sample it derives from and by
\* what was applied to it.
Tensor(id, stage) == [id |-> id, stage |-> stage, tf |-> FALSE, act |-> FALSE]
\* a row of np.empty: never written
Uninit == Tensor(0, "uninit")
Img(i) == Tensor(i, "img")
Lab(i) == Tensor(i, "label")
\* the VAE: returns (reconstruction, mean, log-variance)
VaeForward(x) ==
  << [x EXCEPT !.stage = "recon"], [x EXCEPT !.stage = "mu"],
     [x EXCEPT !.stage = "logvar"] >>
\* transforms.Compose([Resize, repeat-or-NoneTransform])
Transform(x) == [x EXCEPT !.tf = TRUE]
\* INCEPTION_V3(batch)[0], pooled and squeezed: one embedding per sample
InceptionV3(x) == [x EXCEPT !.act = TRUE]


(* ------------------- _calculate_frechet_distance ----------------------- *)
\* np.atleast_1d on a shape
AtLeast1d(shape) == IF Len(shape) = 0 THEN <<1>> ELSE shape
\* np.atleast_2d on a shape
AtLeast2d(shape) ==
  IF Len(shape) = 0 THEN <<1, 1>>
  ELSE IF Len(shape) = 1 THEN <<1, shape[1]>>
  ELSE shape

\* What linalg.sqrtm can return, as far as the function looks at it: whether
\* the array is complex, whether its real part is finite everywhere, and the
\* largest |imaginary part| on the diagonal (units of 1e-6) or NaN there.
SqrtmResults ==
  {[complex |-> FALSE, re_finite |-> f, imag_nan |-> FALSE, diag_imag |-> 0] :
      f \in BOOLEAN}
  \cup
  {[complex |-> TRUE, re_finite |-> f, imag_nan |-> FALSE, diag_imag |-> d] :
      f \in BOOLEAN, d \in {0, AtolMicro, AtolMicro + 1}}
  \cup
  {[complex |-> TRUE, re_finite |-> f, imag_nan |-> TRUE, diag_imag |-> 0] :
      f \in BOOLEAN}

\* np.isfinite(covmean).all()
IsFiniteAll(c) == c.re_finite /\ ~c.imag_nan
\* np.allclose(np.diagonal(covmean).imag, 0, atol=1e-3): |x| <= atol, NaN is not close
AllCloseDiagImag(c) == ~c.imag_nan /\ c.diag_imag <= AtolMicro

\* the two assert statements, on the promoted shapes
FdPreconditionMuOnly(m1, s1, m2, s2) == m1 = m2
FdPrecondition(m1, s1, m2, s2) == m1 = m2 /\ s1 = s2

\* placeholder where no square root was computed
NoCov == [complex |-> FALSE, re_finite |-> FALSE, imag_nan |-> FALSE, diag_imag |-> 0]

FdRaise(error, calls, cov) ==
  [status |-> "raised", error |-> error, finite |-> FALSE,
   recomputed |-> (calls = 2), sqrtm_calls |-> calls, covmean |-> cov]

\* _calculate_frechet_distance on argument shapes m1, s1, m2, s2, where r1 is
\* what the first linalg.sqrtm returns and r2 what the second one would.
CalculateFrechetDistance(m1, s1, m2, s2, r1, r2) ==
  LET m1a == AtLeast1d(m1)
      m2a == AtLeast1d(m2)
      s1a == AtLeast2d(s1)
      s2a == AtLeast2d(s2)
  IN IF ~FdPrecondition(m1a, s1a, m2a, s2a)
       THEN FdRaise("AssertionError", 0, NoCov)
     ELSE IF s1a[2] # s2a[1] \/ s1a[1] # s2a[2]
       \* sigma1.dot(sigma2) is undefined or not square
       THEN FdRaise("ValueError:shape", 0, NoCov)
     ELSE
       LET recomputed == ~IsFiniteAll(r1)
           covmean == IF recomputed THEN r2 ELSE r1
           calls == IF recomputed THEN 2 ELSE 1
       IN IF covmean.complex /\ ~AllCloseDiagImag(covmean)
            THEN FdRaise("ValueError:imaginary", calls, covmean)
          ELSE [status |-> "returned", error |-> "",
                finite |-> covmean.re_finite, recomputed |-> recomputed,
                sqrtm_calls |-> calls, covmean |-> covmean]

NoFdResult ==
  [status |-> "none", error |-> "", finite |-> FALSE, recomputed |-> FALSE,
   sqrtm_calls |-> 0, covmean |-> NoCov]

(* --------------------------- get_fid_value ----------------------------- *)
Which == {"original", "reconstructed"}

\* numpy's rule for  arr[:n] = vals  with n = len(arr): vals must have n rows,
\* or one row, which is then repeated
BroadcastOK(n, m) == m = n \/ m = 1
SliceAssign(arr, vals) ==
  IF Len(vals) = Len(arr) THEN vals ELSE [k \in 1..Len(arr) |-> vals[1]]

\* outputs = vae_model(inputs)[0]
VaeOutputsSecond(inputs) == [k \in DOMAIN inputs |-> VaeForward(inputs[k])[2]]
VaeOutputs(inputs) == [k \in DOMAIN inputs |-> VaeForward(inputs[k])[1]]

\* SequentialSampler(data_source).__iter__: iter(range(len(data_source)))
SequentialSampler(data_source) == [k \in 1..Len(data_source) |-> k]

\* CustomTensorDataset.__getitem__
GetItem(tensors, index) == <<Transform(tensors[1][index]), tensors[2][index]>>

\* the tensors of the dataset _get_activations iterates
TensorsOf(w) ==
  IF w = "original" THEN <<original_input, original_label>>
  ELSE <<vae_output, original_label>>

\* start_idx = start_idx + pred.shape[0]
NextStartIdxStuck(idx, n) == idx
NextStartIdx(idx, n) == idx + n

NoAct == [done |-> FALSE, arr |-> <<>>, writes |-> <<>>, log |-> <<>>]

FidInit ==
  /\ pc = "start"
  /\ err = ""
  /\ length \in 0..MaxCard
  /\ dl_batch_size \in 1..MaxBatch
  /\ batch_size \in 1..MaxBatch
  /\ FID_EVAL_SIZE \in 1..MaxCap
  /\ remaining = {}
  /\ count = 0
  /\ original_input = <<>>
  /\ original_label = <<>>
  /\ vae_output = <<>>
  /\ subset_indices = <<>>
  /\ sampler = <<>>
  /\ which = "original"
  /\ act_batch_size = 0
  /\ pred_arr = <<>>
  /\ start_idx = 0
  /\ sampler_pos = 0
  /\ writes = <<>>
  /\ batch_log = <<>>
  /\ delivered = [w \in Which |-> <<>>]
  /\ act = [w \in Which |-> NoAct]
  /\ fid_value = NoFdResult

\* fid.py:161-204: take the shapes from the first batch, preallocate
\* batch_size rows
FidStart ==
  /\ pc = "start"
  /\ IF length = 0
       THEN \* the loop at 191 has no iteration: shapeI is unbound at 197
            /\ pc' = "error"
            /\ err' = "UnboundLocalError"
            /\ UNCHANGED <<original_input, original_label, vae_output, remaining>>
       ELSE /\ pc' = "vae_loop"
            /\ err' = ""
            /\ original_input' = [k \in 1..batch_size |-> Uninit]
            /\ original_label' = [k \in 1..batch_size |-> Uninit]
            /\ vae_output' = [k \in 1..batch_size |-> Uninit]
            /\ remaining' = 1..length
  /\ count' = 0
  /\ UNCHANGED <<length, dl_batch_size, batch_size, FID_EVAL_SIZE, subset_indices,
                 sampler, which, act_batch_size, pred_arr, start_idx, sampler_pos,
                 writes, batch_log, delivered, act, fid_value>>
  /\ UNCHANGED <<fdVars, saveVars, logVars>>

\* fid.py:206-221: one batch of the dataloader, in the order the dataloader
\* yields it
VaeBatch ==
  /\ pc = "vae_loop"
  /\ remaining # {}
  /\ \E ids \in Arrangements(remaining, Min(dl_batch_size, Cardinality(remaining))) :
       LET inputs == [k \in DOMAIN ids |-> Img(ids[k])]
           labels == [k \in DOMAIN ids |-> Lab(ids[k])]
           outputs == VaeOutputs(inputs)
           gone == {ids[k] : k \in DOMAIN ids}
       IN IF count # 0
            THEN /\ original_input' = original_input \o inputs
                 /\ original_label' = original_label \o labels
                 /\ vae_output' = vae_output \o outputs
                 /\ remaining' = remaining \ gone
                 /\ count' = count + 1
                 /\ UNCHANGED <<pc, err>>
          ELSE IF BroadcastOK(Len(original_input), Len(inputs))
            THEN /\ original_input' = SliceAssign(original_input, inputs)
                 /\ original_label' = SliceAssign(original_label, labels)
                 /\ vae_output' = SliceAssign(vae_output, outputs)
                 /\ remaining' = remaining \ gone
                 /\ count' = count + 1
                 /\ UNCHANGED <<pc, err>>
          ELSE \* 217: could not broadcast input array into shape
                 /\ pc' = "error"
                 /\ err' = "ValueError:broadcast"
                 /\ UNCHANGED <<original_input, original_label, vae_output,
                                remaining, count>>
  /\ UNCHANGED <<length, dl_batch_size, batch_size, FID_EVAL_SIZE, subset_indices,
                 sampler, which, act_batch_size, pred_arr, start_idx, sampler_pos,
                 writes, batch_log, delivered, act, fid_value>>
  /\ UNCHANGED <<fdVars, saveVars, logVars>>

\* fid.py:223-255: draw the subset, build the sampler and the two datasets
FidSubset ==
  /\ pc = "vae_loop"
  /\ remaining = {}
  /\ LET num_samples == Min(FID_EVAL_SIZE, length)
     IN \E idx \in Arrangements(1..length, num_samples) :
          /\ subset_indices' = idx
          /\ sampler' = SequentialSampler(idx)
  /\ IF Len(vae_output) < 2
       THEN \* 240: dataset_reconstructed[1] is out of range
            /\ pc' = "error"
            /\ err' = "IndexError"
       ELSE /\ pc' = "act_start"
            /\ err' = ""
  /\ which' = "original"
  /\ UNCHANGED <<length, dl_batch_size, batch_size, FID_EVAL_SIZE, remaining, count,
                 original_input, original_label, vae_output, act_batch_size,
                 pred_arr, start_idx, sampler_pos, writes, batch_log, delivered,
                 act, fid_value>>
  /\ UNCHANGED <<fdVars, saveVars, logVars>>

\* fid.py:54-65: clamp the batch size, preallocate length rows
GetActivationsStart ==
  /\ pc = "act_start"
  /\ act_batch_size' = IF batch_size > length THEN length ELSE batch_size
  /\ pred_arr' = [k \in 1..length |-> Uninit]
  /\ writes' = [k \in 1..length |-> 0]
  /\ start_idx' = 0
  /\ sampler_pos' = 0
  /\ batch_log' = <<>>
  /\ pc' = "act_loop"
  /\ UNCHANGED <<err, length, dl_batch_size, batch_size, FID_EVAL_SIZE, remaining,
                 count, original_input, original_label, vae_output, subset_indices,
                 sampler, which, delivered, act, fid_value>>
  /\ UNCHANGED <<fdVars, saveVars, logVars>>

\* fid.py:67-83: one batch of DataLoader(dataset, batch_size, sampler)
GetActivationsBatch ==
  /\ pc = "act_loop"
  /\ sampler_pos < Len(sampler)
  /\ LET n == Min(batch_size, Len(sampler) - sampler_pos)
         positions == [k \in 1..n |-> sampler[sampler_pos + k]]
         items == [k \in 1..n |-> GetItem(TensorsOf(which), positions[k])]
         pred == [k \in 1..n |-> InceptionV3(items[k][1])]
         rows == {r \in 1..Len(pred_arr) : start_idx < r /\ r <= start_idx + n}
     IN /\ pred_arr' = [r \in 1..Len(pred_arr) |->
                          IF r \in rows THEN pred[r - start_idx] ELSE pred_arr[r]]
        /\ writes' = [r \in 1..Len(pred_arr) |->
                          IF r \in rows THEN writes[r] + 1 ELSE writes[r]]
        /\ batch_log' = Append(batch_log, <<start_idx, n>>)
        /\ start_idx' = NextStartIdx(start_idx, n)
        /\ sampler_pos' = sampler_pos + n
        /\ delivered' = [delivered EXCEPT ![which] =
                           @ \o [k \in 1..n |->
                                   <<positions[k], items[k][1], items[k][2]>>]]
  /\ UNCHANGED <<pc, err, length, dl_batch_size, batch_size, FID_EVAL_SIZE, remaining,
                 count, original_input, original_label, vae_output, subset_indices,
                 sampler, which, act_batch_size, act, fid_value>>
  /\ UNCHANGED <<fdVars, saveVars, logVars>>

\* fid.py:85, 257-259: return pred_arr; the statistics of the original come
\* first, then those of the reconstruction
GetActivationsReturn ==
  /\ pc = "act_loop"
  /\ sampler_pos = Len(sampler)
  /\ act' = [act EXCEPT ![which] =
               [done |-> TRUE, arr |-> pred_arr, writes |-> writes, log |-> batch_log]]
  /\ IF which = "original"
       THEN which' = "reconstructed" /\ pc' = "act_start"
       ELSE which' = which /\ pc' = "frechet"
  /\ UNCHANGED <<err, length, dl_batch_size, batch_size, FID_EVAL_SIZE, remaining,
                 count, original_input, original_label, vae_output, subset_indices,
                 sampler, act_batch_size, pred_arr, start_idx, sampler_pos, writes,
                 batch_log, delivered, fid_value>>
  /\ UNCHANGED <<fdVars, saveVars, logVars>>

\* fid.py:150-151, 262-263: mean and covariance of both matrices have shapes
\* (dims,) and (dims, dims); the distance is computed from them
FidFrechet ==
  /\ pc = "frechet"
  /\ \E r1, r2 \in SqrtmResults :
       LET res == CalculateFrechetDistance(<<dims>>, <<dims, dims>>,
                                           <<dims>>, <<dims, dims>>, r1, r2)
       IN /\ fid_value' = res
          /\ pc' = IF res.status = "raised" THEN "error" ELSE "done"
          /\ err' = res.error
  /\ UNCHANGED <<length, dl_batch_size, batch_size, FID_EVAL_SIZE, remaining,
                 count, original_input, original_label, vae_output, subset_indices,
                 sampler, which, act_batch_size, pred_arr, start_idx, sampler_pos,
                 writes, batch_log, delivered, act>>
  /\ UNCHANGED <<fdVars, saveVars, logVars>>


(* ------------ _calculate_frechet_distance called directly -------------- *)
\* argument shapes explored
MuShapes == {<<>>, <<1>>, <<2>>, <<5>>, <<7>>}
SigmaShapes == {<<>>, <<1>>, <<2>>, <<1, 1>>, <<1, 2>>, <<2, 2>>, <<5, 5>>, <<7, 7>>}

FdInit ==
  /\ mu1 \in MuShapes
  /\ mu2 \in MuShapes
  /\ sigma1 \in SigmaShapes
  /\ sigma2 \in SigmaShapes
  /\ fd_result = NoFdResult

FdIdle ==
  /\ mu1 = <<>>
  /\ mu2 = <<>>
  /\ sigma1 = <<>>
  /\ sigma2 = <<>>
  /\ fd_result = NoFdResult

\* fid.py:87-130: one call
FdCall ==
  /\ fd_result.status = "none"
  /\ \E r1, r2 \in SqrtmResults :
       fd_result' = CalculateFrechetDistance(mu1, sigma1, mu2, sigma2, r1, r2)
  /\ UNCHANGED <<mu1, sigma1, mu2, sigma2>>
  /\ UNCHANGED <<fidVars, saveVars, logVars>>

(* ------------------------------ save_model ----------------------------- *)
\* training.py:16-17
MODEL_FILENAME == "model.pt"
META_FILENAME == "specs.json"

\* directories, models and filename arguments explored; Trainer.__call__ passes
\* "model-{epoch}.pt"
Dirs == {"results", "results_b"}
Models == {"vae_a", "vae_b"}
FilenameArgs == {MODEL_FILENAME, "model-0.pt", "model-10.pt"}
FsPaths == Dirs \X (FilenameArgs \cup {META_FILENAME})

NoFile == [kind |-> "none", model |-> "", keys |-> {}]
\* json.dump(metadata, f, ...)
JsonFile(metadata) == [kind |-> "json", model |-> metadata.model, keys |-> metadata.keys]
\* torch.save(model.state_dict(), path)
StateDictFile(model) == [kind |-> "state_dict", model |-> model, keys |-> {}]

\* metadata argument: None, or a dict of the caller's
NoneMetadata == [model |-> "", keys |-> {}]
MetadataArgs == {NoneMetadata, [model |-> "", keys |-> {"note"}]}
\* training.py:165-166
DefaultMetadata(model) ==
  [model |-> model, keys |-> {"img_size", "latent_dim", "model_type"}]

\* training.py:168  path_to_metadata = os.path.join(directory, filename)
PathToMetadata(directory, filename) == <<directory, filename>>
\* training.py:173  path_to_model = os.path.join(directory, filename)
PathToModel(directory, filename) == <<directory, filename>>

NoSave == [called |-> FALSE, model |-> "", directory |-> "", filename |-> "",
           metadata_none |-> FALSE]

SaveInit ==
  /\ fs = [p \in FsPaths |-> NoFile]
  /\ last_save = NoSave

\* training.py:145-176
SaveModel ==
  \E model \in Models, directory \in Dirs, metadata \in MetadataArgs,
     filename \in FilenameArgs :
    LET md == IF metadata = NoneMetadata THEN DefaultMetadata(model) ELSE metadata
        fs1 == [fs EXCEPT ![PathToMetadata(directory, filename)] = JsonFile(md)]
        fs2 == [fs1 EXCEPT ![PathToModel(directory, filename)] = StateDictFile(model)]
    IN /\ fs' = fs2
       /\ last_save' = [called |-> TRUE, model |-> model, directory |-> directory,
                        filename |-> filename,
                        metadata_none |-> (metadata = NoneMetadata)]
       /\ UNCHANGED <<fidVars, fdVars, logVars>>

(* ----------------------------- LossesLogger ---------------------------- *)
\* os.path.join(save_dir, TRAIN_LOSSES_LOGFILE) for the save_dir values explored
LogPaths == {"results/train_losses.log", "results_b/train_losses.log"}
LossNames == {"loss", "kl_loss"}
\* the lists a storer holds for a loss name
ValueLists == {<<2>>, <<2, 4>>}

RECURSIVE SumOf(_)
SumOf(l) == IF l = <<>> THEN 0 ELSE Head(l) + SumOf(Tail(l))
\* training.py:179-181 (the lists explored have an integral mean)
mean(l) == SumOf(l) \div Len(l)

\* a line of a log file; `by` records the instance whose call produced it
HeaderLine(i) == [header |-> TRUE, by |-> i, epoch |-> 0, name |-> "Loss", value |-> 0]
DataLine(i, epoch, k, v) ==
  [header |-> FALSE, by |-> i, epoch |-> epoch, name |-> k, value |-> mean(v)]

\* logging.Logger.debug: every handler of the logger appends the line to the
\* file it has open
RECURSIVE Emit(_, _, _)
Emit(files, hs, line) ==
  IF hs = <<>> THEN files
  ELSE Emit([files EXCEPT ![Head(hs)] = Append(@, line)], Tail(hs), line)

RECURSIVE EmitAll(_, _, _)
EmitAll(files, hs, lines) ==
  IF lines = <<>> THEN files
  ELSE EmitAll(Emit(files, hs, Head(lines)), hs, Tail(lines))

\* losses_storer.items(): names in insertion order, each with its list
Storers ==
  UNION {{[k \in 1..n |-> <<names[k], v>>] : names \in Arrangements(LossNames, n),
                                            v \in ValueLists} : n \in 1..2}

LogInit ==
  /\ log_fs = [p \in LogPaths |-> 0]
  /\ inodes = <<>>
  /\ handlers = <<>>
  /\ loggers = <<>>
  /\ logged = <<>>

\* training.py:123-136  LossesLogger.__init__ (POSIX: os.remove unlinks the
\* path, a handler that has the file open keeps writing to the unlinked file)
NewLossesLogger ==
  /\ Len(loggers) < MaxLoggers
  /\ \E file_path_name \in LogPaths :
       LET i == Len(loggers) + 1
           removed == [log_fs EXCEPT ![file_path_name] = 0]
           \* logging.FileHandler(file_path_name): open in append mode
           created == removed[file_path_name] = 0
           ino == IF created THEN Len(inodes) + 1 ELSE removed[file_path_name]
           files == IF created THEN Append(inodes, <<>>) ELSE inodes
           hs == Append(handlers, ino)
       IN /\ log_fs' = [removed EXCEPT ![file_path_name] = ino]
          /\ handlers' = hs
          /\ inodes' = Emit(files, hs, HeaderLine(i))
          /\ loggers' = Append(loggers, [path |-> file_path_name, inode |-> ino])
          /\ UNCHANGED logged
  /\ UNCHANGED <<fidVars, fdVars, saveVars>>

\* training.py:138-142  LossesLogger.log
Log ==
  /\ Len(logged) < MaxLogs
  /\ \E i \in 1..Len(loggers), epoch \in 0..MaxEpoch, losses_storer \in Storers :
       LET lines == [k \in 1..Len(losses_storer) |->
                       DataLine(i, epoch, losses_storer[k][1], losses_storer[k][2])]
       IN /\ inodes' = EmitAll(inodes, handlers, lines)
          /\ logged' = Append(logged, lines)
          /\ UNCHANGED <<log_fs, handlers, loggers>>
  /\ UNCHANGED <<fidVars, fdVars, saveVars>>

(* ---------------------------- specifications --------------------------- *)
FidIdle ==
  /\ pc = "idle"
  /\ err = ""
  /\ length = 0
  /\ dl_batch_size = 1
  /\ batch_size = 1
  /\ FID_EVAL_SIZE = 1
  /\ remaining = {}
  /\ count = 0
  /\ original_input = <<>>
  /\ original_label = <<>>
  /\ vae_output = <<>>
  /\ subset_indices = <<>>
  /\ sampler = <<>>
  /\ which = "original"
  /\ act_batch_size = 0
  /\ pred_arr = <<>>
  /\ start_idx = 0
  /\ sampler_pos = 0
  /\ writes = <<>>
  /\ batch_log = <<>>
  /\ delivered = [w \in Which |-> <<>>]
  /\ act = [w \in Which |-> NoAct]
  /\ fid_value = NoFdResult

\* get_fid_value
InitFid == FidInit /\ FdIdle /\ SaveInit /\ LogInit
NextFid ==
  \/ FidStart
  \/ VaeBatch
  \/ FidSubset
  \/ GetActivationsStart
  \/ GetActivationsBatch
  \/ GetActivationsReturn
  \/ FidFrechet
SpecFid == InitFid /\ [][NextFid]_vars

\* _calculate_frechet_distance on arbitrary argument shapes
InitFd == FidIdle /\ FdInit /\ SaveInit /\ LogInit
NextFd == FdCall
SpecFd == InitFd /\ [][NextFd]_vars

\* save_model
InitSave == FidIdle /\ FdIdle /\ SaveInit /\ LogInit
NextSave == SaveModel
SpecSave == InitSave /\ [][NextSave]_vars

\* LossesLogger
InitLog == FidIdle /\ FdIdle /\ SaveInit /\ LogInit
NextLog == NewLossesLogger \/ Log
SpecLog == InitLog /\ [][NextLog]_vars


(* -------------------------------- claims ------------------------------- *)
\* the materialization loop of get_fid_value has run over the whole dataloader
Materialized == pc \notin {"idle", "start"} /\ length > 0 /\ remaining = {}

\* C1: when _get_activations has returned, for the original and for the
\* reconstructed matrix, the batches delivered add up to the N rows
\* preallocated and every row has been written exactly once.
C1_EveryRowWrittenOnce ==
  \A w \in Which :
    act[w].done =>
      /\ SumSizes(act[w].log) = Len(act[w].arr)
      /\ \A r \in 1..Len(act[w].arr) : act[w].writes[r] = 1

\* C2: after the materialization loop the originals, the labels and the
\* reconstructions each have exactly as many rows as the dataset has samples.
C2_MaterializedCardinality ==
  Materialized =>
    /\ Len(original_input) = length
    /\ Len(original_label) = length
    /\ Len(vae_output) = length

\* C3: the positions the batched iterators read from the original and from the
\* reconstructed dataset are exactly the drawn subset_indices, in that order,
\* for both datasets.
C3_ReadsAreTheDrawnSubset ==
  \A w \in Which :
    act[w].done =>
      [k \in 1..Len(delivered[w]) |-> delivered[w][k][1]] = subset_indices

\* C4: pairing is preserved end to end: every materialized row i holds an
\* original, the first output of the model for that same sample and that
\* sample's label; and the k-th items delivered to feature extraction from the
\* original and from the reconstructed dataset come from the same row and the
\* same sample, with the same label.
C4_PairingPreserved ==
  /\ (pc # "idle" /\ count > 0) =>
       /\ Len(vae_output) = Len(original_input)
       /\ Len(original_label) = Len(original_input)
       /\ \A i \in 1..Len(original_input) :
            /\ original_input[i].stage = "img"
            /\ vae_output[i].stage = "recon"
            /\ vae_output[i].id = original_input[i].id
            /\ original_label[i].stage = "label"
            /\ original_label[i].id = original_input[i].id
  /\ \A k \in 1..Len(delivered["reconstructed"]) :
       LET o == delivered["original"][k]
           r == delivered["reconstructed"][k]
       IN /\ k <= Len(delivered["original"])
          /\ o[1] = r[1]
          /\ o[2].stage = "img" /\ r[2].stage = "recon"
          /\ o[2].id = r[2].id
          /\ o[2].id = original_input[o[1]].id
          /\ o[3] = r[3]
          /\ o[3].stage = "label" /\ o[3].id = o[2].id

\* C4 witness: a complete run over several dataloader batches that came in an
\* order other than the dataset's, with at least two items delivered per dataset
C4_Witness ==
  /\ pc = "done"
  /\ count >= 2
  /\ original_input[1].id # 1
  /\ Len(delivered["reconstructed"]) >= 2
  /\ Len(delivered["original"]) = Len(delivered["reconstructed"])

\* C5: a batch size larger than the number of samples never makes the
\* evaluation fail; the effective batch size is the sample count.
C5_ClampAndContinue ==
  batch_size > length =>
    /\ err # "ValueError:broadcast"
    /\ (pc = "act_loop" => act_batch_size = length)

\* C6: when the square root was recomputed and the recomputed result is still
\* non-finite, or has a diagonal imaginary part above 1e-3, the call raises.
C6_FailedRecoveryRaises ==
  (/\ fd_result.recomputed
   /\ \/ ~IsFiniteAll(fd_result.covmean)
      \/ fd_result.covmean.complex /\ fd_result.covmean.diag_imag > AtolMicro)
  => fd_result.status = "raised"

\* C7 as stated: whenever mu1 and mu2, or sigma1 and sigma2, have different
\* shapes the call raises the precondition error before any square root.
C7_AnyShapeDifferenceRaises ==
  (fd_result.status # "none" /\ (mu1 # mu2 \/ sigma1 # sigma2)) =>
    /\ fd_result.status = "raised"
    /\ fd_result.error = "AssertionError"
    /\ fd_result.sqrtm_calls = 0

\* C7 amended: whenever the shapes still differ after mu1, mu2 are promoted to
\* at least one dimension and sigma1, sigma2 to at least two, the call raises
\* the precondition error before any square root and returns no distance.
C7_PromotedShapeDifferenceRaises ==
  (/\ fd_result.status # "none"
   /\ \/ AtLeast1d(mu1) # AtLeast1d(mu2)
      \/ AtLeast2d(sigma1) # AtLeast2d(sigma2))
  => /\ fd_result.status = "raised"
     /\ fd_result.error = "AssertionError"
     /\ fd_result.sqrtm_calls = 0

\* C7 witness: mean vectors of dimension 5 and 7 with equal covariance shapes,
\* and covariances of different shapes with equal mean shapes, both rejected
C7_Witness ==
  /\ fd_result.status = "raised"
  /\ fd_result.error = "AssertionError"
  /\ \/ mu1 = <<5>> /\ mu2 = <<7>> /\ sigma1 = sigma2
     \/ mu1 = mu2 /\ sigma1 = <<5, 5>> /\ sigma2 = <<7, 7>>

\* C8: after save_model(model, directory) the directory holds the serialized
\* model state and, in a separate file, the JSON metadata with the keys
\* img_size, latent_dim and model_type.
C8_ModelAndMetadataBothSaved ==
  (last_save.called /\ last_save.metadata_none) =>
    /\ fs[<<last_save.directory, last_save.filename>>].kind = "state_dict"
    /\ fs[<<last_save.directory, META_FILENAME>>].kind = "json"
    /\ fs[<<last_save.directory, META_FILENAME>>].keys =
         {"img_size", "latent_dim", "model_type"}

\* the rows of a file that log() calls produced
DataRows(file) == SelectSeq(file, LAMBDA l : ~l.header)
RECURSIVE Flatten(_)
Flatten(ss) == IF ss = <<>> THEN <<>> ELSE Head(ss) \o Flatten(Tail(ss))

\* C9: the file a LossesLogger opened starts with that logger's header and then
\* holds exactly the rows logged through that logger, once each, and no row
\* logged through another instance.
C9_OwnRowsOnly ==
  \A i \in 1..Len(loggers) :
    LET file == inodes[loggers[i].inode]
    IN /\ file # <<>>
       /\ file[1] = HeaderLine(i)
       /\ DataRows(file) = SelectSeq(Flatten(logged), LAMBDA l : l.by = i)

\* C10: in _get_activations each batch is written at the offset that is the
\* total size of the batches before it, the rows written are the embeddings of
\* the delivered items in delivery order, rows beyond them are untouched, and
\* no row is written twice.
C10_RowOrderPreserved ==
  pc = "act_loop" =>
    /\ \A k \in 1..Len(batch_log) :
         batch_log[k][1] = SumSizes(SubSeq(batch_log, 1, k - 1))
    /\ start_idx = SumSizes(batch_log)
    /\ start_idx = sampler_pos
    /\ \A r \in 1..Len(pred_arr) :
         /\ writes[r] = (IF r <= sampler_pos THEN 1 ELSE 0)
         /\ IF r <= sampler_pos
              THEN LET item == delivered[which][r][2]
                   IN /\ pred_arr[r].act
                      /\ pred_arr[r].id = item.id
                      /\ pred_arr[r].stage = item.stage
                      /\ pred_arr[r].tf = item.tf
              ELSE pred_arr[r] = Uninit

\* C10 witness: all N samples delivered in several batches of unequal sizes
C10_Witness ==
  /\ pc = "act_loop"
  /\ sampler_pos = Len(sampler)
  /\ Len(batch_log) >= 2
  /\ batch_log[1][2] >= 2
  /\ batch_log[Len(batch_log)][2] < batch_log[1][2]
  /\ SumSizes(batch_log) = length

====
